---- MODULE Spec2Model ----
(***************************************************************************)
(* Life-expectancy dashboard (src/app.py).  The script is executed from    *)
(* top to bottom on every interaction: it loads the CSV, fits the          *)
(* GDP-only regression, reads the three sidebar widgets, filters the       *)
(* table, renders four KPI metrics and fills the tabs.  One action per     *)
(* block of the script; the position in the script is pc.  An uncaught     *)
(* Python exception ends the run (pc = "error").  Only the three widgets   *)
(* keep their value from one run to the next.                              *)
(*                                                                         *)
(* Numbers are exact rationals <<num, den>> (den > 0, lowest terms); NaN   *)
(* is <<0, 0>>.  The chart calls (plotly) are outside the model.           *)
(***************************************************************************)
EXTENDS Integers, Sequences, FiniteSets, TLC

VARIABLES csv, pc, err, df, coef, YEARS, STATUSES, COUNTRIES,
          touched, year_range, status_sel, country_sel, df_filt,
          gap, col1, col2, col3, col4, trendline,
          vacc, trend, latest, top10, bot10

vars == <<csv, pc, err, df, coef, YEARS, STATUSES, COUNTRIES,
          touched, year_range, status_sel, country_sel, df_filt,
          gap, col1, col2, col3, col4, trendline,
          vacc, trend, latest, top10, bot10>>

(* ------------------------------ bounds --------------------------------- *)

\* Longest generated CSV (rows).
MaxRows == 3

\* Most countries picked in the "Countries (optional)" multiselect.
MaxCountrySel == 1

(* --------------------------- program constants ------------------------- *)

\* nlargest(10, ...) / nsmallest(10, ...)
TopN == 10

\* vacc = df_filt[df_filt["diphtheria"] >= 20]
MinCoverage == 20

(* ------------------------------ rationals ------------------------------ *)

Abs(x) == IF x < 0 THEN -x ELSE x

RECURSIVE GCD(_, _)
GCD(a, b) == IF b = 0 THEN a ELSE GCD(b, a % b)

NaN == <<0, 0>>

IsNaN(v) == v[2] = 0

Rat(n, d) ==
    IF d = 0 THEN NaN
    ELSE LET g == GCD(Abs(n), Abs(d))
             s == IF d < 0 THEN -1 ELSE 1
         IN  <<(s * n) \div g, (s * d) \div g>>

Int2Rat(n) == <<n, 1>>

RatAdd(p, q) ==
    IF IsNaN(p) \/ IsNaN(q) THEN NaN
    ELSE LET g == GCD(p[2], q[2])
         IN  Rat(p[1] * (q[2] \div g) + q[1] * (p[2] \div g),
                 (p[2] \div g) * q[2])

RatNeg(p) == <<-p[1], p[2]>>

RatSub(p, q) == RatAdd(p, RatNeg(q))

RatMul(p, q) ==
    IF IsNaN(p) \/ IsNaN(q) THEN NaN
    ELSE LET g1 == GCD(Abs(p[1]), q[2])
             g2 == GCD(Abs(q[1]), p[2])
         IN  Rat((p[1] \div g1) * (q[1] \div g2),
                 (p[2] \div g2) * (q[2] \div g1))

\* round(v * scale) to the nearest integer, ties to even: what Python's
\* format(v, ".1f") (scale 10) and format(v, ".0f") (scale 1) print.
RoundHalfEven(v, scale) ==
    LET num == v[1] * scale
        q   == num \div v[2]
        r   == num % v[2]
    IN  IF 2 * r < v[2] THEN q
        ELSE IF 2 * r > v[2] THEN q + 1
        ELSE IF q % 2 = 0 THEN q ELSE q + 1

(* ------------------------------ sequences ------------------------------ *)

Range(s) == {s[i] : i \in 1..Len(s)}

RECURSIVE SumSeq(_)
SumSeq(s) == IF s = <<>> THEN 0 ELSE Head(s) + SumSeq(Tail(s))

Column(rows, f) == [i \in 1..Len(rows) |-> rows[i][f]]

\* Series.unique(): the distinct values in order of first appearance.
RECURSIVE Unique(_)
Unique(s) ==
    IF s = <<>> THEN <<>>
    ELSE LET init == Unique(SubSeq(s, 1, Len(s) - 1))
             x    == s[Len(s)]
         IN  IF x \in Range(init) THEN init ELSE Append(init, x)

\* Stable insertion sort of a sequence of <<key, item>> pairs by the integer
\* key, ascending: the mergesort of pandas keeps equal keys in their
\* original order.
RECURSIVE InsertPair(_, _)
InsertPair(x, s) ==
    IF s = <<>> THEN <<x>>
    ELSE IF s[Len(s)][1] <= x[1] THEN Append(s, x)
    ELSE Append(InsertPair(x, SubSeq(s, 1, Len(s) - 1)), s[Len(s)])

RECURSIVE SortPairs(_)
SortPairs(s) ==
    IF s = <<>> THEN <<>>
    ELSE InsertPair(s[Len(s)], SortPairs(SubSeq(s, 1, Len(s) - 1)))

\* s sorted by the integer keys (keys[i] is the key of s[i]).
StableSort(s, keys) ==
    LET sorted == SortPairs([i \in 1..Len(s) |-> <<keys[i], s[i]>>])
    IN  [i \in 1..Len(s) |-> sorted[i][2]]

\* sorted(...) of a sequence of integers.
Sorted(s) == StableSort(s, s)

(* ------------------------------- the data ------------------------------ *)

\* Python compares strings lexicographically; the names that occur, in
\* that order.
StatusOrder == <<"Developed", "Developing", "Emerging">>

CountryOrder ==
    <<"CountryA", "CountryB", "CountryC", "CountryD", "CountryE", "CountryF",
      "CountryG", "CountryH", "CountryI", "CountryJ", "CountryK", "CountryL">>

IndexOf(s, x) == CHOOSE i \in 1..Len(s) : s[i] = x

StatusRank(s) == IndexOf(StatusOrder, s)

CountryRank(c) == IndexOf(CountryOrder, c)

Row(c, y, s, le, g, sch, dtp) ==
    [country |-> c, year |-> y, status |-> s, life_expectancy |-> le,
     gdp |-> g, schooling |-> sch, diphtheria |-> dtp]

\* Rows a generated CSV is made of.  The first three are the example of
\* the specification; the fourth ties with the third on life expectancy in
\* 2011.
Pool ==
    { Row("CountryA", 2010, "Developing", 60, 1000, 6, 15),
      Row("CountryB", 2010, "Developed", 80, 40000, 12, 95),
      Row("CountryC", 2011, "Developing", 62, 1200, 7, 80),
      Row("CountryA", 2011, "Developing", 62, 1200, 6, 60),
      Row("CountryB", 2011, "Developed", 70, 5000, 12, 90) }

Key(r) == <<r.country, r.year>>

\* (country, year) is unique within a dataset.
UniqueKeys(rows) ==
    \A i, j \in 1..Len(rows) : Key(rows[i]) = Key(rows[j]) => i = j

SmallTables ==
    {t \in UNION {[1..n -> Pool] : n \in 0..MaxRows} : UniqueKeys(t)}

\* Twelve countries of three statuses in one year, in a row order that is
\* not alphabetical, with ties on life expectancy: more rows than a
\* leaderboard holds.
LeagueTable ==
    << Row("CountryK", 2012, "Developing", 55, 1000, 6, 50),
       Row("CountryB", 2012, "Developed", 80, 40000, 12, 95),
       Row("CountryL", 2012, "Developing", 61, 1200, 7, 80),
       Row("CountryA", 2012, "Developed", 80, 40000, 12, 90),
       Row("CountryJ", 2012, "Developing", 62, 1200, 6, 60),
       Row("CountryC", 2012, "Emerging", 70, 5000, 6, 70),
       Row("CountryI", 2012, "Developing", 55, 1000, 7, 15),
       Row("CountryD", 2012, "Developed", 80, 40000, 12, 99),
       Row("CountryH", 2012, "Developing", 63, 1000, 6, 40),
       Row("CountryE", 2012, "Developing", 64, 1200, 7, 85),
       Row("CountryG", 2012, "Emerging", 71, 5000, 12, 75),
       Row("CountryF", 2012, "Developing", 65, 1200, 6, 65) >>

Tables == SmallTables \cup {LeagueTable}

(* ------------------------ load: lines 23 to 33 ------------------------- *)

\* np.log1p(gdp), in tenths (one decimal).
Log1pTenths(g) ==
    CASE g = 1000  -> 69
      [] g = 1200  -> 71
      [] g = 5000  -> 85
      [] g = 40000 -> 106

\* np.log1p(gdp) as a rational.
Log1p(g) == Rat(Log1pTenths(g), 10)

\* np.polyfit(x, y, 1) on a non-empty sample, x in tenths: <<slope,
\* intercept>>.  When all x are equal the system is rank deficient and
\* lstsq returns the solution of least norm (with a RankWarning, no
\* exception): slope = mean(y) / (2 x), intercept = mean(y) / 2.
Polyfit(xs, ys) ==
    LET n   == Len(xs)
        sx  == SumSeq(xs)
        sy  == SumSeq(ys)
        sxx == n * SumSeq([i \in 1..n |-> xs[i] * xs[i]]) - sx * sx
        sxy == n * SumSeq([i \in 1..n |-> xs[i] * ys[i]]) - sx * sy
    IN  IF sxx = 0
        THEN <<Rat(10 * sy, 2 * n * xs[1]), Rat(sy, 2 * n)>>
        ELSE <<Rat(10 * sxy, sxx),
               RatSub(Rat(sy, n), RatMul(Rat(sxy, sxx), Rat(sx, n)))>>

\* coef[0] * np.log1p(gdp) + coef[1]
Predict(c, r) == RatAdd(RatMul(c[1], Log1p(r.gdp)), c[2])

\* The two derived columns of lines 26 and 27.
WithDerived(rows, c) ==
    [i \in 1..Len(rows) |->
        [country |-> rows[i].country, year |-> rows[i].year,
         status |-> rows[i].status,
         life_expectancy |-> rows[i].life_expectancy,
         gdp |-> rows[i].gdp, schooling |-> rows[i].schooling,
         diphtheria |-> rows[i].diphtheria,
         pred_le |-> Predict(c, rows[i]),
         residual_le |-> RatSub(Int2Rat(rows[i].life_expectancy),
                                Predict(c, rows[i]))]]

\* sorted(df["country"].unique())
SortedCountries(rows) ==
    LET u == Unique(Column(rows, "country"))
    IN  StableSort(u, [i \in 1..Len(u) |-> CountryRank(u[i])])

Load ==
    /\ pc = "load"
    /\ IF csv = <<>>
       THEN \* np.polyfit: TypeError("expected non-empty vector for x")
            /\ pc' = "error"
            /\ err' = <<"load", "TypeError">>
            /\ UNCHANGED <<df, coef, YEARS, STATUSES, COUNTRIES>>
       ELSE LET c == Polyfit([i \in 1..Len(csv) |-> Log1pTenths(csv[i].gdp)],
                             Column(csv, "life_expectancy"))
            IN  /\ coef' = c
                /\ df' = WithDerived(csv, c)
                /\ YEARS' = Sorted(Unique(Column(csv, "year")))
                /\ STATUSES' = Unique(Column(csv, "status"))
                /\ COUNTRIES' = SortedCountries(csv)
                /\ pc' = "sidebar"
                /\ UNCHANGED err
    /\ UNCHANGED <<csv, touched, year_range, status_sel, country_sel, df_filt,
                   gap, col1, col2, col3, col4, trendline,
                   vacc, trend, latest, top10, bot10>>

(* ----------------------- sidebar: lines 36 to 42 ----------------------- *)

\* A widget returns its default on the first run and the user's value
\* afterwards.
Sidebar ==
    /\ pc = "sidebar"
    /\ IF touched
       THEN UNCHANGED <<year_range, status_sel, country_sel>>
       ELSE /\ year_range' = <<YEARS[1], YEARS[Len(YEARS)]>>
            /\ status_sel' = STATUSES
            /\ country_sel' = {}
    /\ pc' = "filter"
    /\ UNCHANGED <<csv, err, df, coef, YEARS, STATUSES, COUNTRIES, touched,
                   df_filt, gap, col1, col2, col3, col4, trendline,
                   vacc, trend, latest, top10, bot10>>

(* ----------------------- filter: lines 44 to 48 ------------------------ *)

\* The upper comparison turned round: "<= year >=".
QueryFlipped(rows, yr, sts) ==
    SelectSeq(rows, LAMBDA r : /\ yr[1] <= r.year
                               /\ r.year >= yr[2]
                               /\ r.status \in Range(sts))

\* df.query("@year_range[0] <= year <= @year_range[1]
\*           and status in @status_sel")
Query(rows, yr, sts) ==
    SelectSeq(rows, LAMBDA r : /\ yr[1] <= r.year
                               /\ r.year <= yr[2]
                               /\ r.status \in Range(sts))

\* The country mask applied without the "if country_sel" guard.
IsinCountryUnguarded(rows, cs) == SelectSeq(rows, LAMBDA r : r.country \in cs)

\* if country_sel: df_filt = df_filt[df_filt["country"].isin(country_sel)]
IsinCountry(rows, cs) ==
    IF cs # {} THEN SelectSeq(rows, LAMBDA r : r.country \in cs) ELSE rows

\* The view with the regression fitted again on the view's own rows.
FilterRefit ==
    /\ pc = "filter"
    /\ LET v == IsinCountry(Query(df, year_range, status_sel), country_sel)
       IN  df_filt' =
              IF v = <<>> THEN v
              ELSE WithDerived(v,
                      Polyfit([i \in 1..Len(v) |-> Log1pTenths(v[i].gdp)],
                              Column(v, "life_expectancy")))
    /\ pc' = "kpi"
    /\ UNCHANGED <<csv, err, df, coef, YEARS, STATUSES, COUNTRIES, touched,
                   year_range, status_sel, country_sel,
                   gap, col1, col2, col3, col4, trendline,
                   vacc, trend, latest, top10, bot10>>

\* The query assigned back to the table: df = df.query(...).
FilterInPlace ==
    /\ pc = "filter"
    /\ df' = IsinCountry(Query(df, year_range, status_sel), country_sel)
    /\ df_filt' = df'
    /\ pc' = "kpi"
    /\ UNCHANGED <<csv, err, coef, YEARS, STATUSES, COUNTRIES, touched,
                   year_range, status_sel, country_sel,
                   gap, col1, col2, col3, col4, trendline,
                   vacc, trend, latest, top10, bot10>>

Filter ==
    /\ pc = "filter"
    /\ df_filt' = IsinCountry(Query(df, year_range, status_sel), country_sel)
    /\ pc' = "kpi"
    /\ UNCHANGED <<csv, err, df, coef, YEARS, STATUSES, COUNTRIES, touched,
                   year_range, status_sel, country_sel,
                   gap, col1, col2, col3, col4, trendline,
                   vacc, trend, latest, top10, bot10>>

(* ------------------------- KPI row: lines 51 to 59 --------------------- *)

\* What a metric card shows: a formatted number, "nan", the dash
\* ("dash" stands for the en dash of line 58), or
\* nothing yet.
Blank == [text |-> "", sign |-> "", digits |-> 0]

Dash == [text |-> "dash", sign |-> "", digits |-> 0]

\* f"{v:.1f}" (scale 10), f"{v:,.0f}" (scale 1), f"{v:+.1f}" (plus): the
\* digits are the rounded magnitude in units of 1/scale; NaN prints "nan".
FmtFixed(v, scale, plus) ==
    IF IsNaN(v) THEN [text |-> "nan", sign |-> "", digits |-> 0]
    ELSE [text |-> "number",
          sign |-> IF v[1] < 0 THEN "-" ELSE IF plus THEN "+" ELSE "",
          digits |-> Abs(RoundHalfEven(v, scale))]

\* Series.mean(): NaN on an empty series.
Mean(xs) == Rat(SumSeq(xs), Len(xs))

\* Series.median(): the middle value, or the mean of the two middle
\* values; NaN on an empty series.
Median(xs) ==
    LET s == Sorted(xs)
        n == Len(xs)
    IN  IF n = 0 THEN NaN
        ELSE IF n % 2 = 1 THEN Int2Rat(s[(n + 1) \div 2])
        ELSE Rat(s[n \div 2] + s[n \div 2 + 1], 2)

\* groupby("status", sort=False): the groups in order of appearance.
GroupKeysUnsorted(rows) == Unique(Column(rows, "status"))

\* The group keys of groupby("status"): the statuses present, sorted.
GroupKeys(rows) ==
    LET u == Unique(Column(rows, "status"))
    IN  StableSort(u, [i \in 1..Len(u) |-> StatusRank(u[i])])

\* df_filt.groupby("status")["life_expectancy"].mean()
GroupMeans(rows) ==
    LET keys == GroupKeys(rows)
    IN  [i \in 1..Len(keys) |->
            Mean(Column(SelectSeq(rows, LAMBDA r : r.status = keys[i]),
                        "life_expectancy"))]

\* The difference taken the other way round.
DiffReversed(s) ==
    [i \in 1..Len(s) |-> IF i = 1 THEN NaN ELSE RatSub(s[i - 1], s[i])]

\* Series.diff(): NaN first, then each value minus the one before it.
Diff(s) ==
    [i \in 1..Len(s) |-> IF i = 1 THEN NaN ELSE RatSub(s[i], s[i - 1])]

\* Series.nunique()
NUnique(xs) == Cardinality(Range(xs))

\* The gap computed for any selection of two or more statuses.
GapTwoOrMore(rows, sts) ==
    LET d == Diff(GroupMeans(rows))
    IN  IF Len(sts) >= 2
        THEN IF d = <<>> THEN <<"IndexError", NaN>> ELSE <<"", d[Len(d)]>>
        ELSE <<"", NaN>>

\* Lines 54 to 57: <<exception, gap>>.  .iloc[-1] raises IndexError on an
\* empty series.
Gap(rows, sts) ==
    LET d == Diff(GroupMeans(rows))
    IN  IF Len(sts) = 2
        THEN IF d = <<>> THEN <<"IndexError", NaN>> ELSE <<"", d[Len(d)]>>
        ELSE <<"", NaN>>

KPI ==
    /\ pc = "kpi"
    /\ col1' = FmtFixed(Mean(Column(df_filt, "life_expectancy")), 10, FALSE)
    /\ col2' = FmtFixed(Median(Column(df_filt, "gdp")), 1, FALSE)
    /\ LET g == Gap(df_filt, status_sel)
       IN  IF g[1] # ""
           THEN /\ pc' = "error"
                /\ err' = <<"kpi", g[1]>>
                /\ UNCHANGED <<gap, col3, col4>>
           ELSE /\ gap' = g[2]
                /\ col3' = IF ~IsNaN(g[2]) THEN FmtFixed(g[2], 10, TRUE)
                           ELSE Dash
                /\ col4' = FmtFixed(
                              Int2Rat(NUnique(Column(df_filt, "country"))),
                              1, FALSE)
                /\ pc' = "regress"
                /\ UNCHANGED err
    /\ UNCHANGED <<csv, df, coef, YEARS, STATUSES, COUNTRIES, touched,
                   year_range, status_sel, country_sel, df_filt, trendline,
                   vacc, trend, latest, top10, bot10>>

(* ---------------- Education tab: lines 107 to 113 ---------------------- *)

\* stats.linregress(x, y): what a call can end in, <<exception, slope,
\* intercept>>.  Empty input raises ValueError.  One point gives 0/0: NaN
\* slope and intercept.  Several points with one x: ValueError in current
\* SciPy, NaN in older releases.
Linregress(xs, ys) ==
    LET n   == Len(xs)
        sx  == SumSeq(xs)
        sy  == SumSeq(ys)
        sxx == n * SumSeq([i \in 1..n |-> xs[i] * xs[i]]) - sx * sx
        sxy == n * SumSeq([i \in 1..n |-> xs[i] * ys[i]]) - sx * sy
    IN  IF n = 0 THEN {<<"ValueError", NaN, NaN>>}
        ELSE IF n = 1 THEN {<<"", NaN, NaN>>}
        ELSE IF sxx = 0 THEN {<<"ValueError", NaN, NaN>>, <<"", NaN, NaN>>}
        ELSE {<<"", Rat(sxy, sxx),
                RatSub(Rat(sy, n), RatMul(Rat(sxy, sxx), Rat(sx, n)))>>}

Regression ==
    /\ pc = "regress"
    /\ \E out \in Linregress(Column(df_filt, "schooling"),
                             Column(df_filt, "life_expectancy")) :
          IF out[1] # ""
          THEN /\ pc' = "error"
               /\ err' = <<"regress", out[1]>>
               /\ UNCHANGED trendline
          ELSE /\ trendline' = <<out[2], out[3]>>
               /\ pc' = "leaders"
               /\ UNCHANGED err
    /\ UNCHANGED <<csv, df, coef, YEARS, STATUSES, COUNTRIES, touched,
                   year_range, status_sel, country_sel, df_filt,
                   gap, col1, col2, col3, col4,
                   vacc, trend, latest, top10, bot10>>

(* ------------- Vaccination, Time Trend, Leaders: 180 to 230 ------------ *)

\* df_filt[df_filt["diphtheria"] >= 20]
Vaccinated(rows) == SelectSeq(rows, LAMBDA r : r.diphtheria >= MinCoverage)

\* The (year, status) groups present, sorted by year, then status.
TrendKeys(rows) ==
    LET ks == Unique([i \in 1..Len(rows) |-> <<rows[i].year, rows[i].status>>])
    IN  StableSort(ks, [i \in 1..Len(ks) |->
                          ks[i][1] * (Len(StatusOrder) + 1)
                              + StatusRank(ks[i][2])])

\* df_filt.groupby(["year", "status"])["life_expectancy"].mean()
\*        .reset_index()
Trend(rows) ==
    LET keys == TrendKeys(rows)
    IN  [i \in 1..Len(keys) |->
            [year |-> keys[i][1], status |-> keys[i][2],
             life_expectancy |->
                 Mean(Column(SelectSeq(rows,
                                 LAMBDA r : /\ r.year = keys[i][1]
                                            /\ r.status = keys[i][2]),
                             "life_expectancy"))]]

\* df_filt[df_filt["year"] == year_range[1]]
Latest(rows, yr) == SelectSeq(rows, LAMBDA r : r.year = yr[2])

\* Every way to concatenate one sequence of each set of the list.
RECURSIVE Concats(_)
Concats(sets) ==
    IF sets = <<>> THEN {<<>>}
    ELSE {a \o b : a \in Head(sets), b \in Concats(Tail(sets))}

\* The orders of the sequence s.
Orderings(s) ==
    {[i \in 1..Len(s) |-> s[f[i]]] :
        f \in {g \in [1..Len(s) -> 1..Len(s)] :
                  \A i, j \in 1..Len(s) : g[i] = g[j] => i = j}}

\* Series.sort_values() with the default kind="quicksort", which is not a
\* stable sort: the rows in ascending order of sgn times the life
\* expectancy (sgn = -1: descending), rows of equal value in any order.
SortValues(rows, sgn) ==
    LET ks == Sorted(Unique([i \in 1..Len(rows) |->
                                sgn * rows[i].life_expectancy]))
    IN  Concats([i \in 1..Len(ks) |->
                    Orderings(SelectSeq(rows,
                        LAMBDA r : sgn * r.life_expectancy = ks[i]))])

\* Series.nlargest (sgn = -1: the values are negated) and nsmallest
\* (sgn = 1) with keep="first".  With n >= len the result is
\* sort_values().head(n); otherwise the rows whose value is at most the
\* n-th smallest, sorted by a mergesort, cut to n.
SelectN(n, rows, sgn) ==
    LET arr == [i \in 1..Len(rows) |-> sgn * rows[i].life_expectancy]
    IN  IF n >= Len(rows) THEN SortValues(rows, sgn)
        ELSE LET kth == Sorted(arr)[n]
                 ns  == SelectSeq(rows,
                           LAMBDA r : sgn * r.life_expectancy <= kth)
             IN  {SubSeq(StableSort(ns, [i \in 1..Len(ns) |->
                                sgn * ns[i].life_expectancy]), 1, n)}

\* [["country", "life_expectancy"]].set_index("country")
Board(rows) ==
    [i \in 1..Len(rows) |->
        [country |-> rows[i].country,
         life_expectancy |-> rows[i].life_expectancy]]

\* nlargest ranking by the value instead of the negated value.
NLargestAscending(n, rows) == {Board(t) : t \in SelectN(n, rows, 1)}

\* latest.nlargest(10, "life_expectancy")
NLargest(n, rows) == {Board(t) : t \in SelectN(n, rows, -1)}

\* latest.nsmallest(10, "life_expectancy")
NSmallest(n, rows) == {Board(t) : t \in SelectN(n, rows, 1)}

Leaders ==
    /\ pc = "leaders"
    /\ vacc' = Vaccinated(df_filt)
    /\ trend' = Trend(df_filt)
    /\ latest' = Latest(df_filt, year_range)
    /\ top10' \in NLargest(TopN, Latest(df_filt, year_range))
    /\ bot10' \in NSmallest(TopN, Latest(df_filt, year_range))
    /\ pc' = "done"
    /\ UNCHANGED <<csv, err, df, coef, YEARS, STATUSES, COUNTRIES, touched,
                   year_range, status_sel, country_sel, df_filt,
                   gap, col1, col2, col3, col4, trendline>>

(* ------------------------- the next interaction ------------------------ *)

\* s without its element x.
Without(s, x) == SelectSeq(s, LAMBDA y : y # x)

\* A widget changed: the script starts again from the top in a fresh
\* namespace; only the widgets keep their values.
Rerun ==
    /\ pc \in {"done", "error"}
    /\ YEARS # <<>>
    /\ touched' = TRUE
    /\ pc' = "load"
    /\ err' = <<>>
    /\ df' = <<>> /\ coef' = <<>>
    /\ YEARS' = <<>> /\ STATUSES' = <<>> /\ COUNTRIES' = <<>>
    /\ df_filt' = <<>>
    /\ gap' = NaN
    /\ col1' = Blank /\ col2' = Blank /\ col3' = Blank /\ col4' = Blank
    /\ trendline' = <<>>
    /\ vacc' = <<>> /\ trend' = <<>> /\ latest' = <<>>
    /\ top10' = <<>> /\ bot10' = <<>>
    /\ UNCHANGED csv

\* The user drags an end of the "Year range" slider.
MoveSlider ==
    /\ Rerun
    /\ \E lo, hi \in YEARS[1]..YEARS[Len(YEARS)] :
          /\ lo <= hi
          /\ year_range' = <<lo, hi>>
    /\ UNCHANGED <<status_sel, country_sel>>

\* The user adds a status to "Country status" (it goes last) or removes
\* one.
PickStatus ==
    /\ Rerun
    /\ \E s \in Range(STATUSES) :
          status_sel' = IF s \in Range(status_sel)
                        THEN Without(status_sel, s)
                        ELSE Append(status_sel, s)
    /\ UNCHANGED <<year_range, country_sel>>

\* The user adds a country to "Countries (optional)" or removes one.
PickCountry ==
    /\ Rerun
    /\ \E c \in Range(COUNTRIES) :
          /\ c \in country_sel \/ Cardinality(country_sel) < MaxCountrySel
          /\ country_sel' = IF c \in country_sel
                            THEN country_sel \ {c}
                            ELSE country_sel \cup {c}
    /\ UNCHANGED <<year_range, status_sel>>

(* ---------------------------- specification ---------------------------- *)

Init ==
    /\ csv \in Tables
    /\ pc = "load"
    /\ err = <<>>
    /\ df = <<>> /\ coef = <<>>
    /\ YEARS = <<>> /\ STATUSES = <<>> /\ COUNTRIES = <<>>
    /\ touched = FALSE
    /\ year_range = <<>> /\ status_sel = <<>> /\ country_sel = {}
    /\ df_filt = <<>>
    /\ gap = NaN
    /\ col1 = Blank /\ col2 = Blank /\ col3 = Blank /\ col4 = Blank
    /\ trendline = <<>>
    /\ vacc = <<>> /\ trend = <<>> /\ latest = <<>>
    /\ top10 = <<>> /\ bot10 = <<>>

Next ==
    \/ Load
    \/ Sidebar
    \/ Filter
    \/ KPI
    \/ Regression
    \/ Leaders
    \/ MoveSlider
    \/ PickStatus
    \/ PickCountry

Spec == Init /\ [][Next]_vars

(* ------------------------------- properties ---------------------------- *)

\* The filter block has run in this execution of the script.
Filtered ==
    \/ pc \in {"kpi", "regress", "leaders", "done"}
    \/ pc = "error" /\ err[1] \in {"kpi", "regress"}

\* The KPI row has been rendered completely in this execution.
KpiDone ==
    \/ pc \in {"regress", "leaders", "done"}
    \/ pc = "error" /\ err[1] = "regress"

\* C1: the filtered view is exactly the set of table records whose year
\* lies in the year range (both ends included), whose status is selected
\* and, when countries are selected, whose country is selected; no record
\* occurs twice.
C1_FilteredView ==
    Filtered =>
        /\ Range(df_filt) =
              {r \in Range(df) :
                  /\ year_range[1] <= r.year /\ r.year <= year_range[2]
                  /\ \E i \in 1..Len(status_sel) : status_sel[i] = r.status
                  /\ country_sel = {} \/ r.country \in country_sel}
        /\ Cardinality(Range(df_filt)) = Len(df_filt)
        /\ status_sel = <<>> => df_filt = <<>>

\* C1 witness: no country picked, a one-year range, a view that holds
\* some but not all of the table.
C1_Witness ==
    /\ Filtered /\ touched
    /\ country_sel = {}
    /\ year_range[1] = year_range[2]
    /\ df_filt # <<>>
    /\ Len(df_filt) < Len(df)

\* C3: with zero, one or more than two statuses selected the gap is NaN
\* and the card shows the dash, whatever the view holds.
C3_GapUndefined ==
    (KpiDone /\ Len(status_sel) # 2) => (gap = NaN /\ col3 = Dash)

\* C3 witness: three statuses selected and three present in the view.
C3_Witness ==
    /\ KpiDone
    /\ Len(status_sel) = 3
    /\ Cardinality({df_filt[i].status : i \in 1..Len(df_filt)}) = 3

\* The example of the specification: its three records in any row order,
\* both statuses selected, no country, the year range (2010, 2010), the KPI
\* row rendered.
ExampleCase ==
    /\ Len(csv) = 3
    /\ Range(csv) = { Row("CountryA", 2010, "Developing", 60, 1000, 6, 15),
                      Row("CountryB", 2010, "Developed", 80, 40000, 12, 95),
                      Row("CountryC", 2011, "Developing", 62, 1200, 7, 80) }
    /\ KpiDone
    /\ year_range = <<2010, 2010>>
    /\ Range(status_sel) = {"Developed", "Developing"}
    /\ country_sel = {}

\* C4 as stated: 2 records, mean 70.0, 2 countries, gap +20.
C4_ExampleAsStated ==
    ExampleCase =>
        /\ Len(df_filt) = 2
        /\ col1 = [text |-> "number", sign |-> "", digits |-> 700]
        /\ col4 = [text |-> "number", sign |-> "", digits |-> 2]
        /\ gap = <<20, 1>>

\* C4 as amended: 2 records, mean 70.0, 2 countries, gap -20 (the mean of
\* Developing, 60, minus the mean of Developed, 80), shown as "-20.0".
C4_Example ==
    ExampleCase =>
        /\ Len(df_filt) = 2
        /\ col1 = [text |-> "number", sign |-> "", digits |-> 700]
        /\ col4 = [text |-> "number", sign |-> "", digits |-> 2]
        /\ gap = <<-20, 1>>
        /\ col3 = [text |-> "number", sign |-> "-", digits |-> 200]

\* C4 witness: the example, with Developing selected before Developed.
C4_Witness == ExampleCase /\ status_sel = <<"Developing", "Developed">>

\* The mean life expectancy of the view's records of status s.
MeanOfStatus(s) ==
    LET S == {i \in 1..Len(df_filt) : df_filt[i].status = s}
        RECURSIVE Total(_)
        Total(T) == IF T = {} THEN 0
                    ELSE LET i == CHOOSE j \in T : TRUE
                         IN  df_filt[i].life_expectancy + Total(T \ {i})
    IN  Rat(Total(S), Cardinality(S))

\* C10: with exactly two statuses selected, both present in the view, the
\* gap is the mean of the lexicographically later status minus the mean of
\* the earlier one.
C10_GapSign ==
    \A A, B \in Range(StatusOrder) :
        ( /\ KpiDone
          /\ Len(status_sel) = 2
          /\ Range(status_sel) = {A, B}
          /\ StatusRank(A) < StatusRank(B)
          /\ \E i \in 1..Len(df_filt) : df_filt[i].status = A
          /\ \E i \in 1..Len(df_filt) : df_filt[i].status = B )
        => gap = RatSub(MeanOfStatus(B), MeanOfStatus(A))

\* C10 witness: the later status was selected first and comes first in the
\* table, and the gap is not zero.
C10_Witness ==
    /\ KpiDone
    /\ status_sel = <<"Developing", "Developed">>
    /\ df_filt # <<>>
    /\ df_filt[1].status = "Developing"
    /\ \E i \in 1..Len(df_filt) : df_filt[i].status = "Developed"
    /\ ~IsNaN(gap) /\ gap[1] # 0

\* C2 as stated: a run whose view is empty does not end in an exception,
\* and each of the four metric cards shows the no-data marker.
C2_EmptyViewSafe ==
    (Filtered /\ df_filt = <<>>) =>
        /\ pc # "error"
        /\ KpiDone => /\ col1 = Dash /\ col2 = Dash
                      /\ col3 = Dash /\ col4 = Dash

\* The regression of the Education tab has been called in this execution.
RegressionCalled ==
    \/ pc \in {"leaders", "done"}
    \/ pc = "error" /\ err[1] = "regress"

\* The load block has been entered in this execution.
LoadEntered == pc # "load"

\* C8 as stated: a regression on fewer than two points (the view's, or the
\* loaded table's) does not end the run in an exception and produces no
\* slope, intercept, prediction or residual.
C8_FitUnavailable ==
    /\ (RegressionCalled /\ Len(df_filt) < 2) =>
          /\ pc # "error"
          /\ trendline = <<>>
    /\ (LoadEntered /\ Len(csv) < 2) =>
          /\ pc # "error"
          /\ coef = <<>>
          /\ \A i \in 1..Len(df) : IsNaN(df[i].pred_le)
                                   /\ IsNaN(df[i].residual_le)

\* The rows of the view in the leaderboard year, year_range[1].
LeaderRows == SelectSeq(df_filt, LAMBDA r : r.year = year_range[2])

\* The rows of L in the strict total order before(_, _) on its indices.
Ranked(L, before(_, _)) ==
    [p \in 1..Len(L) |->
        L[CHOOSE i \in 1..Len(L) :
              Cardinality({j \in 1..Len(L) : before(j, i)}) = p - 1]]

Min(a, b) == IF a <= b THEN a ELSE b

\* The first min(TopN, k) rows of L in the order before(_, _), as a board.
FirstRanked(L, before(_, _)) ==
    Board(SubSeq(Ranked(L, before), 1, Min(TopN, Len(L))))

SortedBoardOf(b, L, sgn) ==
    /\ Len(b) = Len(L)
    /\ Range(b) = Range(Board(L))
    /\ \A i, j \in 1..Len(b) :
          i < j => sgn * b[i].life_expectancy >= sgn * b[j].life_expectancy

C6_Monotone ==
    Filtered =>
        \A lo \in (YEARS[1] - 1)..year_range[1] :
            \A hi \in year_range[2]..(YEARS[Len(YEARS)] + 1) :
                LET wide == IsinCountry(Query(df, <<lo, hi>>, status_sel),
                                        country_sel)
                IN  /\ Range(df_filt) \subseteq Range(wide)
                    /\ Len(df_filt) <= Len(wide)

\* C6 witness: a one-year view that the full range strictly extends.
C6_Witness ==
    /\ Filtered
    /\ year_range[1] = year_range[2]
    /\ df_filt # <<>>
    /\ Len(df_filt) <
          Len(IsinCountry(Query(df, <<YEARS[1], YEARS[Len(YEARS)]>>,
                                status_sel), country_sel))

RECURSIVE RatSum(_)
RatSum(s) == IF s = <<>> THEN <<0, 1>> ELSE RatAdd(Head(s), RatSum(Tail(s)))

\* The error of the line c at row r: life_expectancy - (a log1p(gdp) + b).
LineError(c, r) ==
    RatSub(Int2Rat(r.life_expectancy),
           RatAdd(RatMul(c[1], Log1p(r.gdp)), c[2]))

\* c is a least-squares line of life_expectancy on log1p(gdp) over rows:
\* the errors sum to zero and are orthogonal to log1p(gdp).
LeastSquares(c, rows) ==
    /\ RatSum([i \in 1..Len(rows) |-> LineError(c, rows[i])]) = <<0, 1>>
    /\ RatSum([i \in 1..Len(rows) |->
                  RatMul(Log1p(rows[i].gdp), LineError(c, rows[i]))]) = <<0, 1>>

\* C7: every record of a view carries the pred_le and residual_le it got
\* at load time; pred_le lies on the line coef, residual_le is
\* life_expectancy - pred_le, and coef is the least-squares line over the
\* entire CSV.
C7_FitOnWholeTable ==
    Filtered =>
        /\ LeastSquares(coef, csv)
        /\ \A i \in 1..Len(df_filt) :
              LET r == df_filt[i]
              IN  /\ \E j \in 1..Len(df) : df[j] = r
                  /\ r.pred_le = RatAdd(RatMul(coef[1], Log1p(r.gdp)), coef[2])
                  /\ r.residual_le =
                        RatSub(Int2Rat(r.life_expectancy), r.pred_le)

\* C7 witness: a view that holds part of the table, with a record off the
\* line.
C7_Witness ==
    /\ Filtered
    /\ df_filt # <<>>
    /\ Len(df_filt) < Len(df)
    /\ \E i \in 1..Len(df_filt) : df_filt[i].residual_le[1] # 0

\* The table as loaded from the CSV.
LoadedTable ==
    WithDerived(csv, Polyfit([i \in 1..Len(csv) |-> Log1pTenths(csv[i].gdp)],
                             Column(csv, "life_expectancy")))

\* The view of the loaded table under the widgets' current values.
CurrentView ==
    IsinCountry(Query(LoadedTable, year_range, status_sel), country_sel)

\* The load block has completed in this execution.
TableLoaded == pc # "load" /\ ~(pc = "error" /\ err[1] = "load")

\* C9: in every cycle, after any earlier cycles, the table is the one
\* loaded from the CSV, and the view and every aggregate are those of the
\* table under the widgets' current values.
C9_ReadOnly ==
    LET view == CurrentView
    IN  /\ TableLoaded => df = LoadedTable
        /\ Filtered => df_filt = view
        /\ KpiDone =>
              /\ col1 = FmtFixed(Mean(Column(view, "life_expectancy")),
                                 10, FALSE)
              /\ col2 = FmtFixed(Median(Column(view, "gdp")), 1, FALSE)
              /\ gap = Gap(view, status_sel)[2]
              /\ col4.digits = NUnique(Column(view, "country"))
        /\ pc = "done" =>
              /\ vacc = Vaccinated(view)
              /\ trend = Trend(view)
              /\ latest = Latest(view, year_range)
              /\ top10 \in NLargest(TopN, Latest(view, year_range))
              /\ bot10 \in NSmallest(TopN, Latest(view, year_range))

\* C9 witness: a later cycle has completed on a view that holds part of
\* the table.
C9_Witness ==
    /\ pc = "done" /\ touched
    /\ df_filt # <<>>
    /\ Len(df_filt) < Len(df)

====
